---- MODULE Spec2Model ----
(***************************************************************************)
(* State-machine model of client/cros/crash/crasher/crasher.cc: the crash  *)
(* test fixture.  One process, one thread; every action is one sequential  *)
(* step of main / PrepareBelow / SendPid, and the operating system's       *)
(* answers to socket(), connect() and sendmsg() are chosen                 *)
(* nondeterministically.  The C vector argv is kept whole (argv[0] is the  *)
(* program name), so C's argv[i] is argv[i + 1] here and argc = Len(argv). *)
(***************************************************************************)
EXTENDS Integers, Sequences, FiniteSets, TLC

VARIABLES argv, pid, bound, pc, events, fd, open, result, status, exitCode,
          n, inbox, defeated

vars == <<argv, pid, bound, pc, events, fd, open, result, status, exitCode,
          n, inbox, defeated>>

(* ------------------------------ bounds -------------------------------- *)

\* Largest number of command-line arguments after argv[0].
MaxArgs == 3

(* ------------------------- the environment ---------------------------- *)

\* sizeof(sockaddr_un::sun_path), the buffer strncpy fills.
SunPathSize == 108

\* The descriptor socket() hands out: 0, 1 and 2 are the standard streams.
NewFd == 3

SockPath == "/tmp/pid.sock"

\* A path of 110 characters: longer than sun_path can hold.
LongPath == "/aaaaaaaaaaaaaaaaaaaaaaaaaaaaaaaaaaaaaaaaaaaaaaaaaaaaaaaaaaaaaaaaaaaaaaaaaaaaaaaaaaaaaaaaaaaaaaaaaaaaaaaaaaaaa"

Words == {"--nocrash", "--sendpid", "--crash", SockPath, LongPath}

Pids == {1, 4242}

ArgVectors == UNION {[1..k -> Words] : k \in 0..MaxArgs}

\* strncpy(address.sun_path, socket_path, sizeof(address.sun_path) - 1) into
\* a zero-initialised buffer: the first size - 1 characters, NUL-terminated.
strncpy(src, size) ==
  IF Len(src) <= size - 1 THEN src ELSE SubSeq(src, 1, size - 1)

\* Paths a listener may have bound a datagram socket to.
ListenPaths == {SockPath, strncpy(LongPath, SunPathSize)}

SocketErrnos == {"EMFILE", "ENOBUFS"}
SendmsgErrnos == {"ECONNREFUSED", "ENOBUFS"}

\* connect() to a path nobody is bound to fails with ENOENT; to a bound
\* path it succeeds unless permission is denied.
ConnectOutcomes(path) ==
  IF path \in bound THEN {"ok", "EACCES"} ELSE {"ENOENT"}

(* ------------------------------ events -------------------------------- *)

\* One observable step: a line on cerr, a system call, a function call.
Event(op, arg, val, err) == [op |-> op, arg |-> arg, val |-> val, err |-> err]

Cerr(text, val, err) == Event("cerr", text, val, err)
Sys(name, val, err) == Event("sys", name, val, err)
Call(name, val) == Event("call", name, val, "")

(* ------------------------------- main --------------------------------- *)

\* recbomb(16)
StartDepth == 16

argc == Len(argv)

Init ==
  /\ argv \in {<<"crasher">> \o a : a \in ArgVectors}
  /\ pid \in Pids
  /\ bound \in SUBSET ListenPaths
  /\ pc = "main"
  /\ events = <<>>
  /\ fd = -1
  /\ open = {}
  /\ result = "none"
  /\ status = "running"
  /\ exitCode = -1
  /\ n = -1
  /\ inbox = <<>>
  /\ defeated = FALSE

\* exit(0)
Exit(code) ==
  /\ status' = "exited"
  /\ exitCode' = code
  /\ pc' = "done"

\* Mutant: the argument count is not compared.
IsNoCrash_AnyCount == argc >= 2 /\ argv[2] = "--nocrash"

\* argc == 2 && strcmp(argv[1], "--nocrash") == 0
IsNoCrash == argc = 2 /\ argv[2] = "--nocrash"

\* argc == 3 && strcmp(argv[1], "--sendpid") == 0
IsSendPid == argc = 3 /\ argv[2] = "--sendpid"

\* Mutant: the pid line is not printed.
PrepareBelow_PrintPid_Silent ==
  /\ pc = "main"
  /\ pc' = "mode"
  /\ UNCHANGED <<argv, pid, bound, events, fd, open, result, status, exitCode,
                 n, inbox, defeated>>

\* main calls PrepareBelow, whose first statement prints the pid.
PrepareBelow_PrintPid ==
  /\ pc = "main"
  /\ events' = Append(events, Cerr("pid=", pid, ""))
  /\ pc' = "mode"
  /\ UNCHANGED <<argv, pid, bound, fd, open, result, status, exitCode, n, inbox,
                 defeated>>

\* Mutant: the exit(0) after the normal-exit line is missing.
PrepareBelow_NoCrash_NoExit ==
  /\ pc = "mode"
  /\ IsNoCrash
  /\ events' = Append(events, Cerr("Doing normal exit", 0, ""))
  /\ pc' = "crashing"
  /\ UNCHANGED <<argv, pid, bound, fd, open, result, status, exitCode, n, inbox,
                 defeated>>

PrepareBelow_NoCrash ==
  /\ pc = "mode"
  /\ IsNoCrash
  /\ events' = Append(events, Cerr("Doing normal exit", 0, ""))
  /\ Exit(0)
  /\ UNCHANGED <<argv, pid, bound, fd, open, result, n, inbox, defeated>>

\* Neither mode matched: fall through to the last statement.
PrepareBelow_FallThrough ==
  /\ pc = "mode"
  /\ ~IsNoCrash
  /\ ~IsSendPid
  /\ pc' = "crashing"
  /\ UNCHANGED <<argv, pid, bound, events, fd, open, result, status, exitCode,
                 n, inbox, defeated>>

(* ------------------------------ SendPid ------------------------------- *)

\* Mutant: the destructor's test is inverted.
SocketDtor_Inverted(f) == IF f = -1 THEN <<Sys("close", f, "")>> ELSE <<>>

\* ~Socket() { if (fd != -1) close(fd); }: the system calls the destructor
\* makes for a Socket whose field is f.
SocketDtor(f) == IF f # -1 THEN <<Sys("close", f, "")>> ELSE <<>>

\* The descriptors a sequence of events closes.
Closed(evs) == {evs[i].val : i \in {j \in DOMAIN evs : evs[j].arg = "close"}}

\* A return statement of SendPid: what the path did (evs), then sock goes
\* out of scope and its destructor runs, then the caller has the value.
SendPid_Return(evs, f, res) ==
  /\ events' = events \o evs \o SocketDtor(f)
  /\ open' = open \ Closed(SocketDtor(f))
  /\ result' = res
  /\ pc' = "sendpid_ret"

\* Mutant: the character '0' instead of the byte 0.
Payload_Digit == <<48>>

\* The payload of the datagram: char zero = '\0'; iovec data = { &zero, 1 }.
Payload == <<0>>

\* PrepareBelow calls SendPid(argv[2]); sock is constructed (socket()) and
\* the descriptor tested.
SendPid_Socket ==
  /\ pc = "mode"
  /\ ~IsNoCrash
  /\ IsSendPid
  /\ \E r \in {"ok"} \cup SocketErrnos :
       IF r = "ok"
       THEN /\ fd' = NewFd
            /\ open' = open \cup {NewFd}
            /\ events' = Append(events, Sys("socket", NewFd, ""))
            /\ pc' = "connect"
            /\ UNCHANGED result
       ELSE /\ fd' = -1
            /\ SendPid_Return(<<Sys("socket", -1, r),
                                Cerr("socket() failed: ", 0, r)>>, -1, "false")
  /\ UNCHANGED <<argv, pid, bound, status, exitCode, n, inbox, defeated>>

\* Mutant: the return after a failed connect() is missing.
SendPid_Connect_NoReturn ==
  /\ pc = "connect"
  /\ \E r \in ConnectOutcomes(strncpy(argv[3], SunPathSize)) :
       /\ events' = IF r = "ok"
                    THEN Append(events, Sys("connect", fd, ""))
                    ELSE events \o <<Sys("connect", fd, r),
                                     Cerr("connect() failed: ", 0, r)>>
       /\ pc' = "sendmsg"
       /\ UNCHANGED <<open, result>>
  /\ UNCHANGED <<argv, pid, bound, fd, status, exitCode, n, inbox, defeated>>

\* strncpy the path into the address and connect().
SendPid_Connect ==
  /\ pc = "connect"
  /\ \E r \in ConnectOutcomes(strncpy(argv[3], SunPathSize)) :
       IF r = "ok"
       THEN /\ events' = Append(events, Sys("connect", fd, ""))
            /\ pc' = "sendmsg"
            /\ UNCHANGED <<open, result>>
       ELSE SendPid_Return(<<Sys("connect", fd, r),
                             Cerr("connect() failed: ", 0, r)>>, fd, "false")
  /\ UNCHANGED <<argv, pid, bound, fd, status, exitCode, n, inbox, defeated>>

\* Mutant: a failed sendmsg() is reported but SendPid still returns true.
SendPid_Sendmsg_TrueOnFailure ==
  /\ pc = "sendmsg"
  /\ \E r \in {"ok"} \cup SendmsgErrnos :
       IF r = "ok"
       THEN /\ inbox' = Append(inbox, Payload)
            /\ SendPid_Return(<<Sys("sendmsg", fd, "")>>, fd, "true")
       ELSE /\ UNCHANGED inbox
            /\ SendPid_Return(<<Sys("sendmsg", fd, r),
                                Cerr("sendmsg() failed: ", 0, r)>>, fd, "true")
  /\ UNCHANGED <<argv, pid, bound, fd, status, exitCode, n, defeated>>

\* sendmsg() of the one-byte message, then return.
SendPid_Sendmsg ==
  /\ pc = "sendmsg"
  /\ \E r \in {"ok"} \cup SendmsgErrnos :
       IF r = "ok"
       THEN /\ inbox' = Append(inbox, Payload)
            /\ SendPid_Return(<<Sys("sendmsg", fd, "")>>, fd, "true")
       ELSE /\ UNCHANGED inbox
            /\ SendPid_Return(<<Sys("sendmsg", fd, r),
                                Cerr("sendmsg() failed: ", 0, r)>>, fd, "false")
  /\ UNCHANGED <<argv, pid, bound, fd, status, exitCode, n, defeated>>

\* Mutant: the value of SendPid is ignored.
PrepareBelow_SendPidReturn_Ignored ==
  /\ pc = "sendpid_ret"
  /\ pc' = "crashing"
  /\ UNCHANGED <<argv, pid, bound, events, fd, open, result, status, exitCode,
                 n, inbox, defeated>>

\* Mutant: exit(0) whatever SendPid returned.
PrepareBelow_SendPidReturn_AlwaysExits ==
  /\ pc = "sendpid_ret"
  /\ Exit(0)
  /\ UNCHANGED <<argv, pid, bound, events, fd, open, result, n, inbox, defeated>>

\* if (!SendPid(argv[2])) exit(0);
PrepareBelow_SendPidReturn ==
  /\ pc = "sendpid_ret"
  /\ IF result = "false"
     THEN Exit(0)
     ELSE /\ pc' = "crashing"
          /\ UNCHANGED <<status, exitCode>>
  /\ UNCHANGED <<argv, pid, bound, events, fd, open, result, n, inbox, defeated>>

\* cerr << "Crashing as requested.\n"; and PrepareBelow returns to main.
PrepareBelow_Crashing ==
  /\ pc = "crashing"
  /\ events' = Append(events, Cerr("Crashing as requested.", 0, ""))
  /\ pc' = "main_ret"
  /\ UNCHANGED <<argv, pid, bound, fd, open, result, status, exitCode, n, inbox,
                 defeated>>

(* --------------------- main, after PrepareBelow ----------------------- *)

\* The operands of recbomb(16) + DefeatTailOptimizationForCrasher() are
\* evaluated in an order the compiler chooses: the second may run first.
\* It has no effect but the call.
Main_CallDefeat ==
  /\ pc = "main_ret"
  /\ ~defeated
  /\ defeated' = TRUE
  /\ events' = Append(events, Call("DefeatTailOptimizationForCrasher", 0))
  /\ UNCHANGED <<argv, pid, bound, pc, fd, open, result, status, exitCode, n,
                 inbox>>

\* Mutant: the starting depth is off by one.
Main_CallRecbomb_OffByOne ==
  /\ pc = "main_ret"
  /\ events' = Append(events, Call("recbomb", StartDepth - 1))
  /\ n' = StartDepth - 1
  /\ pc' = "recbomb"
  /\ UNCHANGED <<argv, pid, bound, fd, open, result, status, exitCode, inbox,
                 defeated>>

Main_CallRecbomb ==
  /\ pc = "main_ret"
  /\ events' = Append(events, Call("recbomb", StartDepth))
  /\ n' = StartDepth
  /\ pc' = "recbomb"
  /\ UNCHANGED <<argv, pid, bound, fd, open, result, status, exitCode, inbox,
                 defeated>>

\* recbomb(n), n > 0: one more frame, counting down.
Recbomb_Recurse ==
  /\ pc = "recbomb"
  /\ n > 0
  /\ events' = Append(events, Call("recbomb", n - 1))
  /\ n' = n - 1
  /\ UNCHANGED <<argv, pid, bound, pc, fd, open, result, status, exitCode,
                 inbox, defeated>>

\* The countdown is over: the fault, and the kernel ends the process.
Recbomb_Fault ==
  /\ pc = "recbomb"
  /\ n = 0
  /\ status' = "signaled"
  /\ pc' = "done"
  /\ UNCHANGED <<argv, pid, bound, events, fd, open, result, exitCode, n, inbox,
                 defeated>>

Next ==
  \/ PrepareBelow_PrintPid
  \/ PrepareBelow_NoCrash
  \/ PrepareBelow_FallThrough
  \/ SendPid_Socket
  \/ SendPid_Connect
  \/ SendPid_Sendmsg
  \/ PrepareBelow_SendPidReturn
  \/ PrepareBelow_Crashing
  \/ Main_CallDefeat
  \/ Main_CallRecbomb
  \/ Recbomb_Recurse
  \/ Recbomb_Fault

Spec == Init /\ [][Next]_vars

\* The program is sequential and the scheduler runs it: an enabled step is
\* eventually taken.
FairSpec == Spec /\ WF_vars(Next)

(* ---------------------- vocabulary of the claims ---------------------- *)

NoCrashArgs == argv = <<"crasher", "--nocrash">>
SendPidArgs == Len(argv) = 3 /\ argv[2] = "--sendpid"
DefaultArgs == argv = <<"crasher">>

Terminated == status # "running"

\* Positions in events of the lines printed with this text, of the calls of
\* this function, of the system calls of this name.
Lines(text) == {i \in DOMAIN events : events[i].op = "cerr" /\ events[i].arg = text}
Calls(name) == {i \in DOMAIN events : events[i].op = "call" /\ events[i].arg = name}
SysCalls(name) == {i \in DOMAIN events : events[i].op = "sys" /\ events[i].arg = name}
AllSys == {i \in DOMAIN events : events[i].op = "sys"}
Failed == {i \in AllSys : events[i].err # ""}

CrashingLine == "Crashing as requested."
Printed(text) == Lines(text) # {}
Called(name) == Calls(name) # {}

\* The lines on cerr, in order.
CerrLines == SelectSeq(events, LAMBDA e : e.op = "cerr")

\* The crash path was not entered.
NoCrashPath == ~Printed(CrashingLine) /\ ~Called("recbomb") /\ n = -1

(* -------------------------------- C1 ---------------------------------- *)

C1_Safe ==
  NoCrashArgs =>
    /\ NoCrashPath
    /\ AllSys = {} /\ open = {} /\ inbox = <<>>
    /\ status \in {"running", "exited"}
    /\ Terminated =>
         /\ exitCode = 0
         /\ CerrLines = <<Cerr("pid=", pid, ""), Cerr("Doing normal exit", 0, "")>>

\* C1: invoked with the single argument --nocrash, the process always ends by
\* exit(0), having printed the pid line and then the normal-exit line, and it
\* never prints "Crashing as requested.", opens a socket or calls recbomb.
C1_NoCrashExitsZero ==
  /\ []C1_Safe
  /\ [](NoCrashArgs => <>(status = "exited" /\ exitCode = 0))

C1_Witness == NoCrashArgs /\ status = "exited" /\ Printed("Doing normal exit")

(* -------------------------------- C2 ---------------------------------- *)

\* The step that failed, by the line SendPid prints for it.
FailureLine(name) == name \o "() failed: "

C2_Safe ==
  (SendPidArgs /\ Failed # {}) =>
    /\ NoCrashPath
    /\ status \in {"running", "exited"}
    /\ Terminated => exitCode = 0
    /\ result = "false" =>
         \E i \in Failed :
           /\ i < Len(events)
           /\ events[i + 1] = Cerr(FailureLine(events[i].arg), 0, events[i].err)

\* C2: in --sendpid mode, when socket(), connect() or sendmsg() fails, the
\* process prints the diagnostic of that failure and its next step after
\* SendPid returns is exit(0); it never prints "Crashing as requested." nor
\* calls recbomb.
C2_FailedSendExitsZero ==
  /\ []C2_Safe
  /\ [][(pc = "sendpid_ret" /\ Failed # {}) =>
          (status' = "exited" /\ exitCode' = 0)]_vars

C2_Witness ==
  /\ SendPidArgs
  /\ status = "exited"
  /\ Printed(FailureLine("sendmsg"))

(* -------------------------------- C3 ---------------------------------- *)

\* A listener is bound to the path the sender connects to, and the send
\* went through.
NotifiedListener ==
  /\ SendPidArgs
  /\ strncpy(argv[3], SunPathSize) \in bound
  /\ \E i \in SysCalls("sendmsg") : events[i].err = ""

\* C3, as stated: after a successful notification the sender exits with
\* status 0 and does not reach the crash path.
C3_SuccessExitsZero ==
  NotifiedListener =>
    /\ ~Printed(CrashingLine)
    /\ ~Called("recbomb")
    /\ Terminated => (status = "exited" /\ exitCode = 0)

\* C3, amended: after a successful notification the sender never exits with
\* status 0; it leaves PrepareBelow only through the "Crashing as
\* requested." line, and it ends only after calling recbomb.
C3_SuccessReachesCrashPath ==
  NotifiedListener =>
    /\ status # "exited" /\ exitCode = -1
    /\ pc \in {"main_ret", "recbomb", "done"} => Printed(CrashingLine)
    /\ Terminated => Called("recbomb")

C3_Witness == NotifiedListener /\ Terminated /\ Called("recbomb")

(* -------------------------------- C4 ---------------------------------- *)

\* C4: in --sendpid mode the order is: the successful sendmsg(), then
\* "Crashing as requested.", then the call of recbomb; and a process whose
\* send succeeded never calls exit.
C4_SendThenCrash ==
  SendPidArgs =>
    /\ \A c \in Lines(CrashingLine) :
         \E s \in SysCalls("sendmsg") : events[s].err = "" /\ s < c
    /\ \A r \in Calls("recbomb") : \E c \in Lines(CrashingLine) : c < r
    /\ result = "true" => (status # "exited" /\ exitCode = -1)

C4_Witness ==
  /\ SendPidArgs
  /\ result = "true"
  /\ Called("recbomb")
  /\ argv[3] = LongPath

(* -------------------------------- C5 ---------------------------------- *)

SocketOpened == \E i \in SysCalls("socket") : events[i].err = ""

\* C5: a socket that was opened is closed exactly once, by the time SendPid
\* returns, whichever way it returns; a socket that was not opened is never
\* closed; nothing is open when the process exits or enters recbomb.
C5_SocketClosedOnce ==
  /\ Cardinality(SysCalls("close")) <= 1
  /\ \A c \in SysCalls("close") :
       /\ events[c].val = NewFd
       /\ \E i \in SysCalls("socket") : events[i].err = "" /\ i < c
  /\ ~SocketOpened => (SysCalls("close") = {} /\ open = {})
  /\ pc \in {"connect", "sendmsg"} => (open = {NewFd} /\ SysCalls("close") = {})
  /\ (result # "none" /\ SocketOpened) =>
       (Cardinality(SysCalls("close")) = 1 /\ open = {})
  /\ (Terminated \/ pc = "recbomb") => open = {}

C5_Witness ==
  /\ status = "exited"
  /\ Printed(FailureLine("connect"))
  /\ SysCalls("close") # {}

(* -------------------------------- C6 ---------------------------------- *)

\* C6: on every path the pid line is printed exactly once and before every
\* other line.
C6_PidLineFirstOnce ==
  /\ pc # "main" => CerrLines # <<>>
  /\ CerrLines # <<>> => CerrLines[1] = Cerr("pid=", pid, "")
  /\ Cardinality(Lines("pid=")) <= 1

C6_Witness == Terminated /\ Len(CerrLines) = 2 /\ Printed(FailureLine("socket"))

(* -------------------------------- C7 ---------------------------------- *)

\* C7: with no arguments the process never exits or returns normally; it
\* prints the pid line, then "Crashing as requested.", then calls recbomb,
\* always with depth 16, and ends only by the fault.
C7_DefaultCrashes ==
  DefaultArgs =>
    /\ status # "exited" /\ exitCode = -1
    /\ AllSys = {}
    /\ Called("recbomb") =>
         /\ CerrLines = <<Cerr("pid=", pid, ""), Cerr(CrashingLine, 0, "")>>
         /\ \A i \in Calls("recbomb") :
              (\A j \in Calls("recbomb") : i <= j) => events[i].val = 16
         /\ \A i \in Calls("recbomb") : \A c \in Lines(CrashingLine) : c < i
    /\ Terminated => (status = "signaled" /\ Called("recbomb"))
    /\ pc = "done" => Terminated

C7_Witness == DefaultArgs /\ status = "signaled"

(* -------------------------------- C8 ---------------------------------- *)

SentOk == {i \in SysCalls("sendmsg") : events[i].err = ""}

\* C8: at most one datagram is ever sent, and only in --sendpid mode; when
\* SendPid returned true exactly one was sent, of the single byte 0; the
\* sender makes no system call that reads; in the other modes there is no
\* socket and nothing is sent.
C8_OneZeroByte ==
  /\ Len(inbox) <= 1
  /\ Len(inbox) = Cardinality(SentOk)
  /\ Cardinality(SysCalls("sendmsg")) <= 1
  /\ \A i \in DOMAIN inbox : inbox[i] = <<0>>
  /\ result = "true" => inbox = <<(<<0>>)>>
  /\ \A i \in AllSys : events[i].arg \in {"socket", "connect", "sendmsg", "close"}
  /\ ~SendPidArgs => (AllSys = {} /\ inbox = <<>> /\ open = {})

C8_Witness == result = "true" /\ Len(inbox) = 1 /\ Terminated

(* -------------------------------- C9 ---------------------------------- *)

\* The system calls SendPid itself makes, without the destructor's close.
Steps == SelectSeq(events, LAMBDA e : e.op = "sys" /\ e.arg # "close")
StepOrder == <<"socket", "connect", "sendmsg">>
FailureLines ==
  {i \in DOMAIN events : events[i].op = "cerr" /\ events[i].err # ""}

\* C9: SendPid calls socket, connect, sendmsg in this order, each at most
\* once, and stops at the first failure; a failure prints exactly one line,
\* naming the step that failed; SendPid returns true exactly when all three
\* succeeded.
C9_FailFast ==
  /\ Len(Steps) <= 3
  /\ \A k \in DOMAIN Steps :
       /\ Steps[k].arg = StepOrder[k]
       /\ k < Len(Steps) => Steps[k].err = ""
  /\ Cardinality(Failed) <= 1
  /\ result # "none" =>
       /\ Cardinality(FailureLines) = Cardinality(Failed)
       /\ \A i \in Failed :
            events[i + 1] = Cerr(FailureLine(events[i].arg), 0, events[i].err)
       /\ result = "true" <=> (Len(Steps) = 3 /\ Failed = {})
       /\ result = "false" <=> Failed # {}
  /\ result = "none" => FailureLines = {}

C9_Witness ==
  /\ result = "false"
  /\ Len(Steps) = 2
  /\ Steps[2].err = "ENOENT"
  /\ Terminated

(* -------------------------------- C10 --------------------------------- *)

NoCrashTaken == Printed("Doing normal exit")
SendPidTaken == SysCalls("socket") # {}

\* C10: --nocrash is honoured only as the sole argument and --sendpid only
\* with exactly one argument after it; every other argument vector takes the
\* crash path, neither exiting nor opening a socket; the two modes are never
\* both taken.
C10_ModeSelection ==
  /\ NoCrashTaken => NoCrashArgs
  /\ SendPidTaken => SendPidArgs
  /\ ~(NoCrashTaken /\ SendPidTaken)
  /\ (pc \notin {"main", "mode"} /\ NoCrashArgs) => NoCrashTaken
  /\ (pc \notin {"main", "mode"} /\ SendPidArgs) => SendPidTaken
  /\ (~NoCrashArgs /\ ~SendPidArgs) =>
       /\ status # "exited" /\ exitCode = -1
       /\ AllSys = {} /\ open = {}
       /\ pc \in {"main_ret", "recbomb", "done"} =>
            CerrLines = <<Cerr("pid=", pid, ""), Cerr(CrashingLine, 0, "")>>
       /\ Terminated => Called("recbomb")

C10_Witness ==
  /\ argv = <<"crasher", "--nocrash", "--sendpid", SockPath>>
  /\ Called("recbomb")

====
